---- MODULE Spec2Model ----
(***************************************************************************)
(* Real-time presence / room / messaging relay of server/index.ts.        *)
(* Strings are modelled as tuples of one-character strings so that the    *)
(* string operations of the code (startsWith, substring, match) are       *)
(* computed, not assumed.                                                  *)
(***************************************************************************)
EXTENDS Integers, Sequences, FiniteSets, TLC

\* ------------------------------------------------------------------ bounds
MaxUuid == 3

\* -------------------------------------------------------------- the inputs
\* socket ids handed out by the transport, one per physical connection
sk1 == <<"Q","x","7","_","a","1">>
sk2 == <<"Q","x","7","_","a","2">>
Conns == {sk1, sk2}

alice == <<"a","l","i","c","e">>
\* handshake.auth as the client sends it; <<>> is an absent (falsy) field,
\* for which the server makes up a guest identity
Handshakes ==
  { [userId |-> alice, username |-> <<"A","l">>],
    [userId |-> <<>>,  username |-> <<>>] }

roomG == <<"r","o","o","m","-","g">>
lobby == <<"l","o","b","b","y">>
NamedRooms == {roomG, lobby}
\* every socket also sits in the room named by its own id, so a socket id
\* is a room id a client can name; all of them are rooms of the adapter
RoomIds == NamedRooms \cup Conns
\* the room ids clients put in their events
ClientRooms == NamedRooms \cup {sk1}

plain == <<"h","i">>
Texts ==
  { plain,
    <<"h","i"," ","@","b","o","b">>,
    <<"@","A","l"," ","@","A","l">>,
    <<"a","@"," ","b">> }

\* what a client can put in a sendMessage payload besides roomId and text:
\* nothing, or a userId, an id and a timestamp of its own choosing
Claimed ==
  { [userId |-> <<>>,  id |-> <<>>, timestamp |-> 0],
    [userId |-> alice, id |-> <<"i","d","0","0">>, timestamp |-> 99] }

\* sendMessage payloads: a well-formed one, one without text, and null
Undefined == <<"u","n","d","e","f">>
NothingClaimed == [userId |-> <<>>, id |-> <<>>, timestamp |-> 0]
Payloads ==
  [kind : {"ok"}, roomId : ClientRooms, text : {plain}, claimed : Claimed]
    \cup [kind : {"ok"}, roomId : {roomG}, text : Texts, claimed : Claimed]
    \cup [kind : {"notext"}, roomId : {roomG}, text : {Undefined},
          claimed : {NothingClaimed}]
    \cup [kind : {"null"}, roomId : {<<>>}, text : {Undefined},
          claimed : {NothingClaimed}]

\* a joinRoom argument that is not a string (null, a number, an object)
NotAString == <<"null">>
NonStrings == {NotAString}

\* what Date.now() can return
ClockReadings == {17}

DisconnectReasons == {"transport close", "client namespace disconnect"}

\* ------------------------------------------------------------ string tools
\* String.prototype.includes for a one-character needle
Contains(s, x) == \E i \in 1..Len(s) : s[i] = x

\* JS Set.add and Set.delete; the insertion order of a JS Set is not kept
SetAdd(s, x) == s \cup {x}
SetDelete(s, x) == s \ {x}

\* String.prototype.startsWith
StartsWith(s, p) == Len(s) >= Len(p) /\ SubSeq(s, 1, Len(p)) = p

\* String.prototype.substring(from) and substring(0, to), zero-based
SubstringFrom(s, from) == SubSeq(s, from + 1, Len(s))
SubstringTo(s, to) == SubSeq(s, 1, IF to < Len(s) THEN to ELSE Len(s))

Digit(n) == CASE n = 0 -> "0" [] n = 1 -> "1" [] n = 2 -> "2" [] n = 3 -> "3"
              [] n = 4 -> "4" [] n = 5 -> "5" [] n = 6 -> "6" [] n = 7 -> "7"
              [] n = 8 -> "8" [] OTHER -> "9"

\* uuidv4() in the sendMessage handler: the n-th value drawn there;
\* distinct draws give distinct strings
uuidv4(n) == <<"i","d", Digit(n \div 10), Digit(n % 10)>>

\* uuidv4() in the connection handler: one draw per socket, named after the
\* socket, distinct from every other draw
uuidv4Guest(c) == <<"g","-">> \o c

\* the notification ids clients acknowledge
ReadIds == {uuidv4(1)}

RoomName(roomId) ==
  IF StartsWith(roomId, <<"r","o","o","m","-">>) THEN SubstringFrom(roomId, 5)
  ELSE roomId

\* \w of the regular expression
WordChars == {"a","b","c","d","e","f","g","h","i","j","k","l","m","n","o","p",
              "q","r","s","t","u","v","w","x","y","z","A","B","C","D","E","F",
              "G","H","I","J","K","L","M","N","O","P","Q","R","S","T","U","V",
              "W","X","Y","Z","0","1","2","3","4","5","6","7","8","9","_"}

\* end (inclusive) of the maximal run of word characters starting at i
RECURSIVE WordEnd(_, _)
WordEnd(s, i) ==
  IF i + 1 <= Len(s) /\ s[i + 1] \in WordChars THEN WordEnd(s, i + 1) ELSE i

\* text.match(/@(\w+)/g): every match, left to right, duplicates kept;
\* the empty sequence stands for null
RECURSIVE MatchFrom(_, _)
MatchFrom(s, i) ==
  IF i > Len(s) THEN <<>>
  ELSE IF s[i] = "@" /\ i + 1 <= Len(s) /\ s[i + 1] \in WordChars
       THEN <<SubSeq(s, i, WordEnd(s, i + 1))>> \o MatchFrom(s, WordEnd(s, i + 1) + 1)
       ELSE MatchFrom(s, i + 1)

MatchMentions(text) == MatchFrom(text, 1)

\* ---------------------------------------------------------------- the state
VARIABLES
  status,        \* per socket: "idle" (not yet connected), "open", "closed"
  userIdOf,      \* closure variable userId of the socket's handlers
  usernameOf,    \* closure variable username of the socket's handlers
                 \* (both dropped with the closure when the socket closes)
  adapterRooms,  \* io.sockets.adapter.rooms: room id -> set of socket ids
  activeUsers,   \* Map userId -> socketId
  userRooms,     \* Map userId -> set of room ids
  uuidCtr,       \* number of uuidv4() values the sendMessage handler has drawn
  emitted,       \* events emitted in the current turn of the event loop, in order
  lastOp,        \* the inbound event handled in the current turn
  joined,        \* per socket: rooms it asked to join and has not left since
  seen,          \* per socket: the socket ids its client has read in rosters
  lastRoster,    \* per room: users of the last roomUpdate emitted for it
  relay,         \* the Node process: "up", or "down" after an uncaught exception
  wire,          \* per socket: the events in flight to its client, oldest first
  messages,      \* per socket: the messages array of its client's hook
  relayed,       \* the chatMessages the relay has emitted, in processing order
  notifications, \* per socket: the notifications array of its client's hook
  received       \* per socket: the events its client has taken off the wire

\* the transport's queues and the clients; Spec follows the server turn by
\* turn and leaves them alone, SpecWire and SpecRun follow them too
clientVars == <<wire, messages, relayed, notifications, received>>

vars == <<status, userIdOf, usernameOf, adapterRooms, activeUsers, userRooms,
          uuidCtr, emitted, lastOp, joined, seen, lastRoster, relay,
          wire, messages, relayed, notifications, received>>

None == <<"n","o","n","e">>
NoRoom == <<>>
\* "no roomUpdate yet": a roster naming one pseudo socket
NoRoster == { <<"-">> }

NoKind == "-"

\* between two turns of the event loop
Idle == [op |-> "idle", conn |-> None, user |-> <<>>, room |-> NoRoom,
         was |-> {}, had |-> FALSE, kind |-> NoKind]

\* the inbound event of a turn, with what held when it arrived: the rooms
\* the socket had joined and whether the registry had an entry for its user
Turn(op, c, u, room, kind) ==
  [op |-> op, conn |-> c, user |-> u, room |-> room,
   was |-> joined[c], had |-> u \in DOMAIN activeUsers, kind |-> kind]

Open == { c \in Conns : status[c] = "open" }

\* Map.has / Map.get on a map kept as a function over its keys
Has(map, k) == k \in DOMAIN map
MapSet(map, k, v) == [x \in (DOMAIN map) \cup {k} |-> IF x = k THEN v ELSE map[x]]
MapDelete(map, k) == [x \in (DOMAIN map) \ {k} |-> map[x]]

\* userRooms.get(userId) || new Set()
RoomsOfUser(u) == IF Has(userRooms, u) THEN userRooms[u] ELSE {}

\* io.sockets.adapter.rooms.get(roomId) || [] over a given adapter state
RoomSockets(rooms, roomId) == rooms[roomId]

Emission(ev, to, payload) == [ev |-> ev, to |-> to, payload |-> payload]

\* io.to(roomId).emit(ev, payload): one copy to every socket in the room
ToRoomEmit(rooms, roomId, ev, payload) ==
  Emission(ev, RoomSockets(rooms, roomId), payload)

\* the Room object built for a roomUpdate
RoomView(rooms, roomId) ==
  [id |-> roomId, name |-> RoomName(roomId), users |-> RoomSockets(rooms, roomId)]

\* lastRoster after the emissions es have gone out
RECURSIVE Deliver(_, _)
Deliver(lr, es) ==
  IF es = <<>> THEN lr
  ELSE LET e == Head(es)
           nxt == IF e.ev = "roomUpdate"
                  THEN [lr EXCEPT ![e.payload.id] = e.payload.users]
                  ELSE lr
       IN Deliver(nxt, Tail(es))

\* what the clients have read in rosters once the emissions es have arrived;
\* a closed socket's client is gone
RECURSIVE Learned(_, _)
Learned(sn, es) ==
  IF es = <<>> THEN sn
  ELSE LET e == Head(es)
           nxt == IF e.ev = "roomUpdate"
                  THEN [c \in Conns |->
                          IF c \in e.to THEN sn[c] \cup e.payload.users ELSE sn[c]]
                  ELSE sn
       IN Learned(nxt, Tail(es))

\* the room ids a client can put in an event: the named rooms, and a socket
\* id once it knows it (its own, or one read in a roster)
CanName(c, roomId) == roomId \in Conns => roomId \in seen[c] \cup {c}

\* lastRoster after a handler: the emissions are recorded, and what was
\* recorded for a room that no socket is in any more is forgotten
Recorded(lr, es, rooms) ==
  [r \in RoomIds |-> IF rooms[r] = {} THEN NoRoster ELSE Deliver(lr, es)[r]]

Init ==
  /\ status = [c \in Conns |-> "idle"]
  /\ userIdOf = [c \in Conns |-> <<>>]
  /\ usernameOf = [c \in Conns |-> <<>>]
  /\ adapterRooms = [r \in RoomIds |-> {}]
  /\ activeUsers = <<>>
  /\ userRooms = <<>>
  /\ uuidCtr = 0
  /\ emitted = <<>>
  /\ lastOp = Idle
  /\ joined = [c \in Conns |-> {}]
  /\ seen = [c \in Conns |-> {}]
  /\ lastRoster = [r \in RoomIds |-> NoRoster]
  /\ relay = "up"
  /\ wire = [c \in Conns |-> <<>>]
  /\ messages = [c \in Conns |-> <<>>]
  /\ relayed = <<>>
  /\ notifications = [c \in Conns |-> <<>>]
  /\ received = [c \in Conns |-> <<>>]

\* ------------------------------------------------------------- connection
\* socket.handshake.auth.userId || `user-${uuidv4()}`
HandshakeUserId(h, c) ==
  IF h.userId # <<>> THEN h.userId ELSE <<"u","s","e","r","-">> \o uuidv4Guest(c)

\* socket.handshake.auth.username || `Anonymous-${socket.id.substring(0, 5)}`
HandshakeUsername(h, c) ==
  IF h.username # <<>> THEN h.username
  ELSE <<"A","n","o","n","y","m","o","u","s","-">> \o SubstringTo(c, 5)

\* the transport accepts the socket: it is connected and sits in its own room
SocketOpen(rooms, c) == [rooms EXCEPT ![c] = SetAdd(@, c)]

\* what the connection handler emits
ConnectEmits(c) ==
  <<Emission("connectionStateChange", {c}, [connected |-> TRUE])>>

\* a registry that keeps the entry an identity already has
RegisterFirstWins(au, u, c) == IF Has(au, u) THEN au ELSE MapSet(au, u, c)

\* activeUsers.set(userId, socket.id)
Register(au, u, c) == MapSet(au, u, c)

\* io.on("connection")
Connect(c, h) ==
  /\ lastOp = Idle
  /\ status[c] = "idle"
  /\ LET userId == HandshakeUserId(h, c)
         username == HandshakeUsername(h, c)
     IN /\ status' = [status EXCEPT ![c] = "open"]
        /\ adapterRooms' = SocketOpen(adapterRooms, c)
        /\ emitted' = ConnectEmits(c)
        /\ userIdOf' = [userIdOf EXCEPT ![c] = userId]
        /\ usernameOf' = [usernameOf EXCEPT ![c] = username]
        /\ activeUsers' = Register(activeUsers, userId, c)
        /\ lastOp' = Turn("connection", c, userId, NoRoom, NoKind)
        /\ lastRoster' = Recorded(lastRoster, emitted', adapterRooms')
        /\ UNCHANGED <<userRooms, joined, seen, uuidCtr>>
        /\ UNCHANGED <<relay, clientVars>>

\* ------------------------------------------------------------------ rooms
\* socket.join(roomId)
SocketJoin(rooms, c, roomId) == [rooms EXCEPT ![roomId] = SetAdd(@, c)]

\* socket.leave(roomId)
SocketLeave(rooms, c, roomId) == [rooms EXCEPT ![roomId] = SetDelete(@, c)]

\* if (!userRooms.has(userId)) userRooms.set(userId, new Set());
\* userRooms.get(userId)?.add(roomId)
TrackRoom(ur, u, roomId) ==
  MapSet(ur, u, SetAdd(IF Has(ur, u) THEN ur[u] ELSE {}, roomId))

\* userRooms.get(userId)?.delete(roomId)
UntrackRoom(ur, u, roomId) ==
  IF Has(ur, u) THEN MapSet(ur, u, SetDelete(ur[u], roomId)) ELSE ur

\* what the joinRoom handler emits, given the adapter after socket.join
JoinEmits(rooms, roomId) ==
  <<ToRoomEmit(rooms, roomId, "roomUpdate", RoomView(rooms, roomId))>>

\* a joinRoom that builds the roster before socket.join
JoinEffectStale(rooms, ur, c, u, roomId) ==
  [rooms |-> SocketJoin(rooms, c, roomId),
   ur |-> TrackRoom(ur, u, roomId),
   out |-> JoinEmits(rooms, roomId)]

\* a joinRoom that stays silent when the socket is in the room already
JoinEffectOnce(rooms, ur, c, u, roomId) ==
  [rooms |-> SocketJoin(rooms, c, roomId),
   ur |-> TrackRoom(ur, u, roomId),
   out |-> IF c \in rooms[roomId] THEN <<>>
           ELSE JoinEmits(SocketJoin(rooms, c, roomId), roomId)]

\* the joinRoom handler on the two stores: what it leaves and what it emits
JoinEffect(rooms, ur, c, u, roomId) ==
  [rooms |-> SocketJoin(rooms, c, roomId),
   ur |-> TrackRoom(ur, u, roomId),
   out |-> JoinEmits(SocketJoin(rooms, c, roomId), roomId)]

\* socket.on("joinRoom")
JoinRoom(c, roomId) ==
  /\ lastOp = Idle
  /\ status[c] = "open"
  /\ CanName(c, roomId)
  /\ LET eff == JoinEffect(adapterRooms, userRooms, c, userIdOf[c], roomId)
     IN /\ adapterRooms' = eff.rooms
        /\ userRooms' = eff.ur
        /\ emitted' = eff.out
  /\ lastOp' = Turn("joinRoom", c, userIdOf[c], roomId, NoKind)
  /\ joined' = [joined EXCEPT ![c] = @ \cup {roomId}]
  /\ seen' = Learned(seen, emitted')
  /\ lastRoster' = Recorded(lastRoster, emitted', adapterRooms')
  /\ UNCHANGED <<status, userIdOf, usernameOf, activeUsers, uuidCtr>>
  /\ UNCHANGED <<relay, clientVars>>

\* socket.on("joinRoom") with an argument that is not a string: socket.join
\* and the userRooms update go through, then roomId.startsWith throws a
\* TypeError; the listener has no try/catch, the exception is uncaught and
\* ends the Node process: every socket drops, the in-memory stores are gone
\* and nothing is emitted
JoinRoomThrows(c, roomId) ==
  /\ lastOp = Idle
  /\ status[c] = "open"
  /\ roomId \in NonStrings
  /\ relay' = "down"
  /\ status' = [x \in Conns |-> IF status[x] = "open" THEN "closed" ELSE status[x]]
  /\ adapterRooms' = [r \in RoomIds |-> {}]
  /\ activeUsers' = <<>>
  /\ userRooms' = <<>>
  /\ emitted' = <<>>
  /\ lastOp' = Turn("joinRoom", c, userIdOf[c], roomId, "uncaught")
  /\ userIdOf' = [x \in Conns |-> <<>>]
  /\ usernameOf' = [x \in Conns |-> <<>>]
  /\ joined' = [x \in Conns |-> {}]
  /\ seen' = [x \in Conns |-> {}]
  /\ lastRoster' = [r \in RoomIds |-> NoRoster]
  /\ UNCHANGED <<uuidCtr, clientVars>>

\* what the leaveRoom handler emits
LeaveEmits(rooms, roomId) == <<>>

\* socket.on("leaveRoom")
LeaveRoom(c, roomId) ==
  /\ lastOp = Idle
  /\ status[c] = "open"
  /\ CanName(c, roomId)
  /\ adapterRooms' = SocketLeave(adapterRooms, c, roomId)
  /\ userRooms' = UntrackRoom(userRooms, userIdOf[c], roomId)
  /\ emitted' = LeaveEmits(adapterRooms', roomId)
  /\ lastOp' = Turn("leaveRoom", c, userIdOf[c], roomId, NoKind)
  /\ joined' = [joined EXCEPT ![c] = @ \ {roomId}]
  /\ seen' = Learned(seen, emitted')
  /\ lastRoster' = Recorded(lastRoster, emitted', adapterRooms')
  /\ UNCHANGED <<status, userIdOf, usernameOf, activeUsers, uuidCtr>>
  /\ UNCHANGED <<relay, clientVars>>

\* ---------------------------------------------------------------- messages
AllTarget == <<"a","l","l">>
MentionSuffix == <<" ","m","e","n","t","i","o","n","e","d"," ","y","o","u"," ",
                   "i","n"," ","a"," ","m","e","s","s","a","g","e">>

\* a ChatMessage that takes over the sender, id and timestamp a client claims
StampedMessageTrusting(c, p, n, now) ==
  [id |-> IF p.claimed.id # <<>> THEN p.claimed.id ELSE uuidv4(n),
   userId |-> IF p.claimed.userId # <<>> THEN p.claimed.userId ELSE userIdOf[c],
   roomId |-> p.roomId, text |-> p.text,
   timestamp |-> IF p.claimed.timestamp # 0 THEN p.claimed.timestamp ELSE now]

\* a ChatMessage that takes its timestamp for its id
StampedMessageClockId(c, p, n, now) ==
  [id |-> uuidv4(now), userId |-> userIdOf[c], roomId |-> p.roomId,
   text |-> p.text, timestamp |-> now]

\* the ChatMessage object of the sendMessage handler
StampedMessage(c, p, n, now) ==
  [id |-> uuidv4(n), userId |-> userIdOf[c], roomId |-> p.roomId,
   text |-> p.text, timestamp |-> now]

\* socket.to(message.roomId).emit(...): everyone in the room but the sender
BroadcastToOthers(c, p, n, now) ==
  Emission("chatMessage", RoomSockets(adapterRooms, p.roomId) \ {c},
           StampedMessage(c, p, n, now))

\* io.to(message.roomId).emit("chatMessage", message)
Broadcast(c, p, n, now) ==
  ToRoomEmit(adapterRooms, p.roomId, "chatMessage", StampedMessage(c, p, n, now))

\* mention.substring(1): the name without the @ (computed, then not used)
MentionedUsername(mention) == SubstringFrom(mention, 1)

\* the mentions the handler walks over: none unless the text has an "@"
MentionedUsers(text) ==
  IF Contains(text, "@") THEN MatchMentions(text) ELSE <<>>

\* the Notification built for the i-th mention; n uuids were drawn before
MentionNotification(c, n, i, now) ==
  [id |-> uuidv4(n + i - 1), type |-> "mention", targetUserId |-> AllTarget,
   sourceUserId |-> userIdOf[c],
   message |-> usernameOf[c] \o MentionSuffix,
   timestamp |-> now, read |-> FALSE]

\* io.emit("notification", notification): every connected socket
MentionEmits(c, text, n, now) ==
  [i \in 1..Len(MentionedUsers(text)) |->
     Emission("notification", Open, MentionNotification(c, n, i, now))]

\* a catch block that reports with io.emit
ErrorEmitToAll(c) ==
  Emission("error", Open, [message |-> "Failed to process message"])

\* socket.emit("error", ...) of the catch block
ErrorEmit(c) ==
  Emission("error", {c}, [message |-> "Failed to process message"])

\* number of uuidv4() calls the handler makes for payload p
UuidsDrawn(p) ==
  IF p.kind = "ok" THEN 1 + Len(MentionedUsers(p.text)) ELSE 1

\* a handler that also echoes the message to the sender with socket.emit
SendEmitsEcho(c, p, n, now) ==
  CASE p.kind = "null" -> <<ErrorEmit(c)>>
    [] p.kind = "notext" -> <<Broadcast(c, p, n, now), ErrorEmit(c)>>
    [] OTHER -> <<Broadcast(c, p, n, now),
                  Emission("chatMessage", {c}, StampedMessage(c, p, n, now))>>
                  \o MentionEmits(c, p.text, n + 1, now)

\* a handler that refuses a sender that is not in the target room
SendEmitsMembersOnly(c, p, n, now) ==
  CASE p.kind = "null" -> <<ErrorEmit(c)>>
    [] c \notin RoomSockets(adapterRooms, p.roomId) -> <<ErrorEmit(c)>>
    [] p.kind = "notext" -> <<Broadcast(c, p, n, now), ErrorEmit(c)>>
    [] OTHER -> <<Broadcast(c, p, n, now)>> \o MentionEmits(c, p.text, n + 1, now)

\* a handler that derives the notifications before it relays the message
SendEmitsMentionsFirst(c, p, n, now) ==
  CASE p.kind = "null" -> <<ErrorEmit(c)>>
    [] p.kind = "notext" -> <<Broadcast(c, p, n, now), ErrorEmit(c)>>
    [] OTHER -> MentionEmits(c, p.text, n + 1, now) \o <<Broadcast(c, p, n, now)>>

\* everything the sendMessage handler emits for payload p, in order
SendEmits(c, p, n, now) ==
  CASE p.kind = "null" -> <<ErrorEmit(c)>>
    [] p.kind = "notext" -> <<Broadcast(c, p, n, now), ErrorEmit(c)>>
    [] OTHER -> <<Broadcast(c, p, n, now)>> \o MentionEmits(c, p.text, n + 1, now)

\* socket.on("sendMessage"); now is what Date.now() returns (the wall
\* clock, which the handler reads and nothing in the program keeps)
SendMessage(c, p, now) ==
  /\ lastOp = Idle
  /\ status[c] = "open"
  /\ CanName(c, p.roomId)
  /\ uuidCtr + UuidsDrawn(p) <= MaxUuid
  /\ emitted' = SendEmits(c, p, uuidCtr, now)
  /\ uuidCtr' = uuidCtr + UuidsDrawn(p)
  /\ lastOp' = Turn("sendMessage", c, userIdOf[c], p.roomId, p.kind)
  /\ UNCHANGED <<status, userIdOf, usernameOf, adapterRooms, activeUsers,
                 userRooms, joined, seen, lastRoster>>
  /\ UNCHANGED <<relay, clientVars>>

\* socket.on("readNotification"): logs only
ReadNotification(c, nid) ==
  /\ lastOp = Idle
  /\ status[c] = "open"
  /\ emitted' = <<>>
  /\ lastOp' = Turn("readNotification", c, userIdOf[c], nid, NoKind)
  /\ UNCHANGED <<status, userIdOf, usernameOf, adapterRooms, activeUsers,
                 userRooms, uuidCtr, joined, seen, lastRoster>>
  /\ UNCHANGED <<relay, clientVars>>

\* -------------------------------------------------------------- disconnect
\* the transport drops the socket from every room before "disconnect" fires
SocketLeaveAll(rooms, c) == [r \in RoomIds |-> SetDelete(rooms[r], c)]

\* activeUsers.delete(userId)
Unregister(au, u) == MapDelete(au, u)

\* the rooms the disconnect handler walks over
DisconnectRooms(c) == RoomsOfUser(userIdOf[c])

\* the orders a for...of can take over a set whose insertion order is not kept
Walks(S) ==
  { w \in [1..Cardinality(S) -> S] : \A i, j \in DOMAIN w : i # j => w[i] # w[j] }

\* roomUpdates whose rosters are read before the transport drops the socket
DisconnectUpdatesStale(rooms, walk) ==
  [i \in 1..Len(walk) |->
     ToRoomEmit(rooms, walk[i], "roomUpdate", RoomView(adapterRooms, walk[i]))]

\* one roomUpdate per walked room, built from the adapter after the drop
DisconnectUpdates(rooms, walk) ==
  [i \in 1..Len(walk) |->
     ToRoomEmit(rooms, walk[i], "roomUpdate", RoomView(rooms, walk[i]))]

\* socket.emit("connectionStateChange", { connected: false }) on a socket
\* that is closing: it goes out only if the transport still takes writes
FarewellEmit(c, reason) ==
  Emission("connectionStateChange",
           IF reason = "client namespace disconnect" THEN {c} ELSE {},
           [connected |-> FALSE])

\* socket.on("disconnect")
Disconnect(c, reason, walk) ==
  /\ lastOp = Idle
  /\ status[c] = "open"
  /\ walk \in Walks(DisconnectRooms(c))
  /\ status' = [status EXCEPT ![c] = "closed"]
  /\ adapterRooms' = SocketLeaveAll(adapterRooms, c)
  /\ activeUsers' = Unregister(activeUsers, userIdOf[c])
  /\ emitted' = DisconnectUpdates(adapterRooms', walk)
                  \o <<FarewellEmit(c, reason)>>
  /\ userRooms' = MapDelete(userRooms, userIdOf[c])
  /\ lastOp' = Turn("disconnect", c, userIdOf[c], NoRoom, NoKind)
  /\ joined' = [joined EXCEPT ![c] = {}]
  /\ seen' = [Learned(seen, emitted') EXCEPT ![c] = {}]
  /\ lastRoster' = Recorded(lastRoster, emitted', adapterRooms')
  /\ userIdOf' = [userIdOf EXCEPT ![c] = <<>>]
  /\ usernameOf' = [usernameOf EXCEPT ![c] = <<>>]
  /\ UNCHANGED uuidCtr
  /\ UNCHANGED <<relay, clientVars>>

\* the handler returns: what it emitted is on the wire and the event loop
\* takes the next inbound event
TurnEnd ==
  /\ lastOp # Idle
  /\ relay = "up"
  /\ lastOp' = Idle
  /\ emitted' = <<>>
  /\ UNCHANGED <<status, userIdOf, usernameOf, adapterRooms, activeUsers,
                 userRooms, uuidCtr, joined, seen, lastRoster>>
  /\ UNCHANGED <<relay, clientVars>>

Next ==
  \/ \E c \in Conns, h \in Handshakes : Connect(c, h)
  \/ \E c \in Conns, r \in ClientRooms : JoinRoom(c, r)
  \/ \E c \in Conns, r \in NonStrings : JoinRoomThrows(c, r)
  \/ \E c \in Conns, r \in ClientRooms : LeaveRoom(c, r)
  \/ \E c \in Conns, p \in Payloads, now \in ClockReadings : SendMessage(c, p, now)
  \/ \E c \in Conns, nid \in ReadIds : ReadNotification(c, nid)
  \/ \E c \in Conns, reason \in DisconnectReasons :
        \E walk \in Walks(DisconnectRooms(c)) : Disconnect(c, reason, walk)
  \/ TurnEnd

Spec == Init /\ [][Next]_vars

\* ------------------------------------------------- the wire and the clients
\* the events the client hook followed here has a listener for
Listened == {"chatMessage"}

\* the events of es addressed to socket c that its client listens to, in the
\* order they were emitted
RECURSIVE ForSocket(_, _)
ForSocket(es, c) ==
  IF es = <<>> THEN <<>>
  ELSE (IF c \in Head(es).to /\ Head(es).ev \in Listened
        THEN <<[ev |-> Head(es).ev, payload |-> Head(es).payload]>>
        ELSE <<>>) \o ForSocket(Tail(es), c)

\* the chatMessages among the emissions es, in the order they were emitted
RECURSIVE ChatMessagesOf(_)
ChatMessagesOf(es) ==
  IF es = <<>> THEN <<>>
  ELSE (IF Head(es).ev = "chatMessage" THEN <<Head(es).payload>> ELSE <<>>)
         \o ChatMessagesOf(Tail(es))

\* the handler returns and its emissions are written to the sockets: each
\* socket's transport is a FIFO, and what was queued for a socket that has
\* closed is dropped
Flush ==
  /\ lastOp # Idle
  /\ relay = "up"
  /\ lastOp' = Idle
  /\ emitted' = <<>>
  /\ wire' = [c \in Conns |->
                IF status[c] = "open" THEN wire[c] \o ForSocket(emitted, c)
                ELSE <<>>]
  /\ relayed' = relayed \o ChatMessagesOf(emitted)
  /\ UNCHANGED <<status, userIdOf, usernameOf, adapterRooms, activeUsers,
                 userRooms, uuidCtr, joined, seen, lastRoster, relay, messages,
                 notifications, received>>

\* a hook that puts the newest message first
OnChatMessageNewestFirst(prev, message) == <<message>> \o prev

\* onChatMessage of the client hook: setMessages((prev) => [...prev, message])
OnChatMessage(prev, message) == Append(prev, message)

\* onNotification of the client hook:
\* setNotifications((prev) => [...prev, notification])
OnNotification(prev, notification) == Append(prev, notification)

\* the client of socket c takes the next event off its transport (followed
\* between two turns of the relay)
Receive(c) ==
  /\ lastOp = Idle
  /\ status[c] = "open"
  /\ wire[c] # <<>>
  /\ wire' = [wire EXCEPT ![c] = Tail(@)]
  /\ messages' = [messages EXCEPT ![c] =
                    IF Head(wire[c]).ev = "chatMessage"
                    THEN OnChatMessage(@, Head(wire[c]).payload) ELSE @]
  /\ notifications' = [notifications EXCEPT ![c] =
                         IF Head(wire[c]).ev = "notification"
                         THEN OnNotification(@, Head(wire[c]).payload) ELSE @]
  /\ received' = [received EXCEPT ![c] = Append(@, Head(wire[c]))]
  /\ UNCHANGED <<status, userIdOf, usernameOf, adapterRooms, activeUsers,
                 userRooms, uuidCtr, emitted, lastOp, joined, seen, lastRoster,
                 relay, relayed>>

\* the inputs of the runs that follow the wire
WireRooms == NamedRooms
WirePayloads ==
  { p \in Payloads :
      /\ p.kind = "ok"
      /\ p.roomId \in WireRooms
      /\ p.text = plain
      /\ p.claimed = NothingClaimed }

\* one client signs in as alice, the other comes as a guest
WireHandshake(c) ==
  IF c = sk1 THEN [userId |-> alice, username |-> <<"A","l">>]
  ELSE [userId |-> <<>>, username |-> <<>>]

NextWire ==
  \/ \E c \in Conns : Connect(c, WireHandshake(c))
  \/ \E c \in Conns, r \in WireRooms : JoinRoom(c, r)
  \/ \E c \in Conns, p \in WirePayloads, now \in ClockReadings :
        SendMessage(c, p, now)
  \/ Flush
  \/ \E c \in Conns : Receive(c)

SpecWire == Init /\ [][NextWire]_vars

\* ------------------------------------------------------ one run, end to end
\* every event of es addressed to socket c, in the order they were emitted
RECURSIVE Addressed(_, _)
Addressed(es, c) ==
  IF es = <<>> THEN <<>>
  ELSE (IF c \in Head(es).to
        THEN <<[ev |-> Head(es).ev, payload |-> Head(es).payload]>>
        ELSE <<>>) \o Addressed(Tail(es), c)

\* the handler returns and all its emissions are written to the sockets
FlushAll ==
  /\ lastOp # Idle
  /\ relay = "up"
  /\ lastOp' = Idle
  /\ emitted' = <<>>
  /\ wire' = [c \in Conns |->
                IF status[c] = "open" THEN wire[c] \o Addressed(emitted, c)
                ELSE <<>>]
  /\ relayed' = relayed \o ChatMessagesOf(emitted)
  /\ UNCHANGED <<status, userIdOf, usernameOf, adapterRooms, activeUsers,
                 userRooms, uuidCtr, joined, seen, lastRoster, relay, messages,
                 notifications, received>>

\* a hook that marks the whole list read
MarkEveryNotificationAsRead(prev, notificationId) ==
  [i \in DOMAIN prev |-> [prev[i] EXCEPT !.read = TRUE]]

\* the optimistic update of markNotificationAsRead: prev.map(notification =>
\* notification.id === notificationId ? {...notification, read: true}
\* : notification)
MarkNotificationAsRead(prev, notificationId) ==
  [i \in DOMAIN prev |->
     IF prev[i].id = notificationId THEN [prev[i] EXCEPT !.read = TRUE]
     ELSE prev[i]]

\* the ids of the notifications in a hook's list
ListedIds(c) == { notifications[c][i].id : i \in DOMAIN notifications[c] }

\* markNotificationAsRead of the client hook on a notification of its list:
\* the readNotification it emits is handled by the relay (which only logs),
\* and the list is updated locally
MarkRead(c, notificationId) ==
  /\ lastOp = Idle
  /\ status[c] = "open"
  /\ notificationId \in ListedIds(c)
  /\ notifications' = [notifications EXCEPT ![c] =
                         MarkNotificationAsRead(@, notificationId)]
  /\ emitted' = <<>>
  /\ lastOp' = Turn("readNotification", c, userIdOf[c], notificationId, NoKind)
  /\ UNCHANGED <<status, userIdOf, usernameOf, adapterRooms, activeUsers,
                 userRooms, uuidCtr, joined, seen, lastRoster, relay, wire,
                 messages, relayed, received>>

\* the run: A (alice, on the first socket) joins the room, then B (a guest,
\* on the second socket) joins it, then A sends a message with a mention,
\* then A disconnects; either may join the other room before the message
RunA == sk1
RunB == sk2
RunRoom == roomG
RunPayloads ==
  { p \in Payloads :
      /\ p.kind = "ok"
      /\ p.roomId = RunRoom
      /\ Contains(p.text, "@")
      /\ MatchMentions(p.text) # <<>>
      /\ p.claimed = NothingClaimed }
RunNotificationIds == { uuidv4(n) : n \in 1..2 }

NextRun ==
  \/ \E c \in Conns : Connect(c, WireHandshake(c))
  \/ \E c \in Conns, r \in NamedRooms :
        /\ uuidCtr = 0
        /\ r \notin joined[c]
        /\ (c = RunB /\ r = RunRoom) => RunRoom \in joined[RunA]
        /\ JoinRoom(c, r)
  \/ \E p \in RunPayloads, now \in ClockReadings :
        /\ uuidCtr = 0
        /\ RunRoom \in joined[RunA] \cap joined[RunB]
        /\ SendMessage(RunA, p, now)
  \/ \E reason \in DisconnectReasons :
        \E walk \in Walks(DisconnectRooms(RunA)) :
           /\ uuidCtr > 0
           /\ Disconnect(RunA, reason, walk)
  \/ FlushAll
  \/ \E c \in Conns : Receive(c)
  \/ \E c \in Conns, nid \in RunNotificationIds : MarkRead(c, nid)

SpecRun == Init /\ [][NextRun]_vars

\* ------------------------------------------------------------- the claims
\* the sockets that asked to join R and have not left it or disconnected
Members(R) == { c \in Conns : R \in joined[c] }

\* the identities behind them
MemberIdentities(R) == { userIdOf[c] : c \in Members(R) }

\* positions in emitted of the events named ev
Emitted(ev) == { i \in DOMAIN emitted : emitted[i].ev = ev }

\* positions in emitted of the roomUpdates for room R
RoomUpdates(R) == { i \in Emitted("roomUpdate") : emitted[i].payload.id = R }

\* number of events named ev that socket c receives in this turn
Copies(ev, c) == Cardinality({ i \in Emitted(ev) : c \in emitted[i].to })

\* C1: the member list of the most recent roomUpdate of a room with current
\* members is exactly the set of identities that joined the room and have not
\* left it or disconnected
C1_RosterIsMemberIdentities ==
  \A R \in RoomIds : Members(R) # {} => lastRoster[R] = MemberIdentities(R)

\* C2: every member of the target room gets exactly one chatMessage copy of a
\* sendMessage that is broadcast, the sender included when it is a member
C2_OneCopyPerMember ==
  (lastOp.op = "sendMessage" /\ lastOp.kind # "null") =>
     /\ \A c \in Members(lastOp.room) : Copies("chatMessage", c) = 1
     /\ \A i \in Emitted("chatMessage") :
           /\ emitted[i].payload.roomId = lastOp.room
           /\ emitted[i].payload.userId = lastOp.user

C2_Witness ==
  /\ lastOp.op = "sendMessage"
  /\ lastOp.kind = "ok"
  /\ Members(lastOp.room) = Conns
  /\ \A c \in Conns : Copies("chatMessage", c) = 1

\* C3: a disconnect emits exactly one roomUpdate for each room the socket was
\* a member of and for no other room, no roster names the socket, and no
\* chatMessage, roomUpdate or notification goes to a closed socket
C3_DisconnectUpdatesItsRooms ==
  /\ lastOp.op = "disconnect" =>
       \A R \in RoomIds :
         /\ Cardinality(RoomUpdates(R)) = (IF R \in lastOp.was THEN 1 ELSE 0)
         /\ \A i \in RoomUpdates(R) : lastOp.conn \notin emitted[i].payload.users
  /\ \A i \in DOMAIN emitted :
       emitted[i].ev \in {"chatMessage", "roomUpdate", "notification"}
         => emitted[i].to \subseteq Open

\* C4: the registry has an entry for identity U exactly when some socket
\* registered as U is connected, and the entry names a connected socket
C4_RegistryMatchesConnections ==
  \A u \in (DOMAIN activeUsers) \cup { userIdOf[c] : c \in Open } :
     /\ u \in DOMAIN activeUsers <=> \E c \in Open : userIdOf[c] = u
     /\ u \in DOMAIN activeUsers => activeUsers[u] \in Open

\* C5: room R is in the membership entry of identity U exactly when some
\* connected socket of U has joined R and not left it since
C5_MembershipTableMatchesJoins ==
  \A u \in (DOMAIN userRooms) \cup { userIdOf[c] : c \in Open }, R \in RoomIds :
     R \in RoomsOfUser(u) <=> \E c \in Open : userIdOf[c] = u /\ R \in joined[c]

\* C6: when a member leaves room R, every remaining member receives a
\* roomUpdate for R whose users do not contain the leaver
C6_LeaveNotifiesRemaining ==
  (lastOp.op = "leaveRoom" /\ lastOp.room \in lastOp.was) =>
     \A c \in Members(lastOp.room) :
        \E i \in RoomUpdates(lastOp.room) :
           c \in emitted[i].to /\ lastOp.conn \notin emitted[i].payload.users

C9_RegisterLastWriteWins ==
  lastOp.op = "connection" =>
     /\ Has(activeUsers, lastOp.user)
     /\ activeUsers[lastOp.user] = lastOp.conn
     /\ Len(emitted) = 1
     /\ emitted[1].ev = "connectionStateChange"
     /\ emitted[1].payload.connected = TRUE
     /\ emitted[1].to = {lastOp.conn}

C9_Witness ==
  /\ lastOp.op = "connection"
  /\ lastOp.had
  /\ Open = Conns
  /\ activeUsers[lastOp.user] = lastOp.conn

C11_NonMemberSendIsRelayed ==
  (lastOp.op = "sendMessage" /\ lastOp.kind = "ok"
      /\ lastOp.room \notin lastOp.was) =>
     /\ Emitted("error") = {}
     /\ Cardinality(Emitted("chatMessage")) = 1
     /\ \A c \in Members(lastOp.room) : Copies("chatMessage", c) = 1

C11_Witness ==
  /\ lastOp.op = "sendMessage"
  /\ lastOp.kind = "ok"
  /\ lastOp.room \in NamedRooms
  /\ lastOp.room \notin lastOp.was
  /\ Members(lastOp.room) # {}
  /\ lastOp.conn \notin Members(lastOp.room)
  /\ \A c \in Members(lastOp.room) : Copies("chatMessage", c) = 1
  /\ Copies("chatMessage", lastOp.conn) = 0

\* the payloads that agree with the chatMessage of this turn in roomId and
\* text, whatever else the client put in them
SameRoomAndText ==
  { p \in Payloads :
      /\ p.kind = lastOp.kind
      /\ p.roomId = lastOp.room
      /\ \E i \in Emitted("chatMessage") : emitted[i].payload.text = p.text }

\* C12: what a sendMessage emits depends on the payload only through roomId
\* and text: every payload with the same roomId and text gives the same
\* emissions, whatever id, timestamp or userId the client put in it; the
\* sender of the chatMessage is the identity of the socket's handshake, and
\* its id and timestamp are the server's uuid and clock reading
C12_ClientClaimsIgnored ==
  (lastOp.op = "sendMessage" /\ lastOp.kind # "null") =>
     /\ \A p \in SameRoomAndText :
           \E now \in ClockReadings :
              SendEmits(lastOp.conn, p, uuidCtr - UuidsDrawn(p), now) = emitted
     /\ \A i \in Emitted("chatMessage") :
           /\ emitted[i].payload.userId = userIdOf[lastOp.conn]
           /\ \A p \in SameRoomAndText :
                 emitted[i].payload.id = uuidv4(uuidCtr - UuidsDrawn(p))
           /\ emitted[i].payload.timestamp \in ClockReadings

C12_Witness ==
  /\ lastOp.op = "sendMessage"
  /\ lastOp.kind = "ok"
  /\ userIdOf[lastOp.conn] # alice
  /\ uuidCtr > 1
  /\ \E p, q \in SameRoomAndText :
        /\ p.claimed # q.claimed
        /\ q.claimed.userId # userIdOf[lastOp.conn]
        /\ q.claimed.id # <<>>
  /\ \E i \in Emitted("chatMessage") :
        emitted[i].payload.userId = userIdOf[lastOp.conn]

\* C13: no two chatMessages the relay has emitted carry the same id
C13_MessageIdsUnique ==
  \A i, j \in DOMAIN relayed : i # j => relayed[i].id # relayed[j].id

C13_Witness ==
  /\ Len(relayed) = MaxUuid
  /\ \E i, j \in DOMAIN relayed :
        /\ relayed[i].roomId # relayed[j].roomId
        /\ relayed[i].userId # relayed[j].userId
        /\ relayed[i].id # relayed[j].id

\* where the message with this id stands in the relay's processing order
Processed(id) == CHOOSE k \in DOMAIN relayed : relayed[k].id = id

\* C14: within one room, every client has its messages in the order the
\* relay processed them
C14_RoomOrderKept ==
  \A c \in Conns : \A i, j \in DOMAIN messages[c] :
     (i < j /\ messages[c][i].roomId = messages[c][j].roomId) =>
        Processed(messages[c][i].id) < Processed(messages[c][j].id)

C14_Witness ==
  \E c, d \in Conns :
     /\ c # d
     /\ Len(messages[c]) >= 2
     /\ Len(messages[d]) >= 2
     /\ messages[c][1].roomId = messages[c][2].roomId
     /\ messages[c][1].userId # messages[c][2].userId
     /\ messages[d][1] = messages[c][1]
     /\ messages[d][2] = messages[c][2]

\* the @tokens of the well-formed message relayed in this turn, in order
TurnMentions ==
  IF lastOp.op = "sendMessage" /\ lastOp.kind = "ok" /\ Emitted("chatMessage") # {}
  THEN MatchMentions(emitted[CHOOSE i \in Emitted("chatMessage") : TRUE].payload.text)
  ELSE <<>>

\* String.prototype.includes for a whole word
IsInfix(w, t) ==
  \E i \in 1..(Len(t) - Len(w) + 1) : SubSeq(t, i, i + Len(w) - 1) = w

\* the notification says who was mentioned: as its target or in its text
Names(notification, name) ==
  notification.targetUserId = name \/ IsInfix(name, notification.message)

\* C15: a relayed message with a single mention produces exactly one
\* notification, which names the mentioned user and is delivered once to every
\* connected socket, member of the room or not, the sender included
C15_SingleMentionNamed ==
  Len(TurnMentions) = 1 =>
     /\ Cardinality(Emitted("notification")) = 1
     /\ \A c \in Open : Copies("notification", c) = 1
     /\ \A i \in Emitted("notification") :
           Names(emitted[i].payload, MentionedUsername(TurnMentions[1]))

\* C16: a relayed message yields one notification per distinct @token
C16_OnePerDistinctToken ==
  (lastOp.op = "sendMessage" /\ lastOp.kind = "ok") =>
     Cardinality(Emitted("notification"))
       = Cardinality({ TurnMentions[k] : k \in DOMAIN TurnMentions })

\* C17: every notification is a mention whose source is the identity of the
\* sending socket, is unread, has an id no other event of the turn carries,
\* and has a text that says who mentioned and who was mentioned
C17_NotificationWellFormed ==
  \A i \in Emitted("notification") :
     LET nf == emitted[i].payload
     IN /\ nf.type = "mention"
        /\ nf.sourceUserId = lastOp.user
        /\ nf.read = FALSE
        /\ \A j \in DOMAIN emitted :
              (j # i /\ emitted[j].ev \in {"chatMessage", "notification"})
                 => emitted[j].payload.id # nf.id
        /\ IsInfix(usernameOf[lastOp.conn], nf.message)
        /\ IsInfix(MentionedUsername(TurnMentions[i - 1]), nf.message)

\* the server's stores
ServerStores == <<activeUsers, userRooms, adapterRooms>>

\* C18: handling readNotification(id) from a socket of identity U leaves a
\* record in the server state that id is read for U
C18_ReadIsRecorded ==
  [][lastOp'.op = "readNotification" => ServerStores' # ServerStores]_vars

\* C19: a sendMessage whose processing fails emits exactly one error event,
\* to the sending socket only, and the relay stays up with every socket
\* still connected and takes the next event
C19_OneErrorToSender ==
  (lastOp.op = "sendMessage" /\ lastOp.kind \in {"null", "notext"}) =>
     /\ Cardinality(Emitted("error")) = 1
     /\ \A i \in Emitted("error") : emitted[i].to = {lastOp.conn}
     /\ relay = "up"
     /\ lastOp.conn \in Open
     /\ ENABLED TurnEnd

C19_Witness ==
  /\ lastOp.op = "sendMessage"
  /\ lastOp.kind = "notext"
  /\ Open = Conns
  /\ Members(lastOp.room) = Conns
  /\ Cardinality(Emitted("error")) = 1
  /\ \A i \in Emitted("error") : emitted[i].to = {lastOp.conn}

\* C20: an exception raised while handling an inbound event is caught at
\* that event's boundary: an error event goes to the socket that sent the
\* event and the relay stays up
C20_EveryEventGuarded ==
  lastOp.kind = "uncaught" =>
     /\ \E i \in Emitted("error") : emitted[i].to = {lastOp.conn}
     /\ relay = "up"

\* the room a chatMessage or a roomUpdate is about
RoomOf(e) == IF e.ev = "chatMessage" THEN e.payload.roomId ELSE e.payload.id

\* positions in emitted of the chatMessages and roomUpdates
RoomEvents == Emitted("chatMessage") \cup Emitted("roomUpdate")

\* C22: a sendMessage from a socket whose identity has no registry entry
\* gets an error event and is not broadcast; a joinRoom or leaveRoom from
\* such a socket changes no membership and emits nothing
C22_UnregisteredIsRefused ==
  (lastOp.conn \in Conns /\ lastOp.room \in RoomIds /\ ~lastOp.had) =>
     /\ lastOp.op = "sendMessage" =>
           /\ \E i \in Emitted("error") : emitted[i].to = {lastOp.conn}
           /\ Emitted("chatMessage") = {}
     /\ lastOp.op \in {"joinRoom", "leaveRoom"} =>
           /\ emitted = <<>>
           /\ joined[lastOp.conn] = lastOp.was

\* C24: a leaveRoom(R) from a socket that is not a member of R changes
\* neither the registry, nor the Membership Table, nor any room's member
\* set, and emits nothing
C24_LeaveByNonMemberIsNoOp ==
  [][(lastOp'.op = "leaveRoom" /\ lastOp'.room \in NamedRooms
        /\ lastOp'.room \notin lastOp'.was) =>
       /\ activeUsers' = activeUsers
       /\ userRooms' = userRooms
       /\ adapterRooms' = adapterRooms
       /\ emitted' = <<>>]_vars

\* C26: a connected socket that has not issued joinRoom receives no
\* chatMessage and no roomUpdate, whatever other sockets of its identity
\* joined; once it has joined room R it receives every message sent to R
C26_MembershipNotHistorical ==
  \A c \in Open :
     /\ (joined[c] = {} /\ seen[c] = {}) =>
           \A i \in RoomEvents : c \notin emitted[i].to
     /\ \A i \in Emitted("chatMessage") :
           emitted[i].payload.roomId \in joined[c] => c \in emitted[i].to

\* C27: a connected socket is in the transport-level room R exactly when R
\* is in the Membership Table entry of its identity
C27_StoresAgree ==
  \A c \in Open, R \in NamedRooms :
     c \in adapterRooms[R] <=> R \in RoomsOfUser(userIdOf[c])

\* C28: a sendMessage that emits an error event to the sender has delivered
\* no chatMessage and no notification to any socket
C28_ErrorExcludesRelay ==
  (lastOp.op = "sendMessage" /\ Emitted("error") # {}) =>
     \A i \in Emitted("chatMessage") \cup Emitted("notification") :
        emitted[i].to = {}

\* C29: a chatMessage or roomUpdate for room R that another socket caused
\* goes only to sockets that have joined R with joinRoom and have not left
\* it or disconnected
C29_RoomIsolation ==
  \A i \in RoomEvents : \A c \in emitted[i].to \ {lastOp.conn} :
     c \in Open /\ RoomOf(emitted[i]) \in joined[c]

\* C30: every notification of a sendMessage is emitted after the chatMessage
\* of that sendMessage, so a socket that gets both gets the chatMessage
\* first, and a text without an @token gives no notification
C30_NotificationsFollowRelay ==
  lastOp.op = "sendMessage" =>
     /\ \A i \in Emitted("notification") :
           /\ \E j \in Emitted("chatMessage") : j < i
           /\ \A j \in Emitted("chatMessage") : j < i
     /\ TurnMentions = <<>> => Emitted("notification") = {}

C30_Witness ==
  /\ lastOp.op = "sendMessage"
  /\ Len(TurnMentions) = 2
  /\ Members(lastOp.room) = Conns
  /\ emitted[1].ev = "chatMessage"
  /\ emitted[1].to = Conns
  /\ emitted[2].ev = "notification"
  /\ emitted[2].to = Conns

\* the events named ev among those the client of socket c has received
ReceivedOf(c, ev) == { k \in DOMAIN received[c] : received[c][k].ev = ev }

\* the run is over: A sent "hi @bob", A has disconnected, and B has taken
\* everything off its wire
RunOver ==
  /\ lastOp = Idle
  /\ status[RunA] = "closed"
  /\ wire[RunB] = <<>>
  /\ Len(relayed) = 1
  /\ relayed[1].text = <<"h","i"," ","@","b","o","b">>

\* C23: in the run where A joins the room, B joins it, A sends a message
\* with one mention and A disconnects, B receives exactly one chatMessage,
\* with sender A and the text sent, exactly one notification, of kind
\* mention, and after them a roomUpdate for the room that does not list A
C23_RunDelivers ==
  RunOver =>
     /\ Cardinality(ReceivedOf(RunB, "chatMessage")) = 1
     /\ \A k \in ReceivedOf(RunB, "chatMessage") :
           /\ received[RunB][k].payload.userId = alice
           /\ received[RunB][k].payload.roomId = RunRoom
           /\ received[RunB][k].payload.text = relayed[1].text
     /\ Cardinality(ReceivedOf(RunB, "notification")) = 1
     /\ \A k \in ReceivedOf(RunB, "notification") :
           received[RunB][k].payload.type = "mention"
     /\ \E k \in ReceivedOf(RunB, "roomUpdate") :
           /\ received[RunB][k].payload.id = RunRoom
           /\ RunA \notin received[RunB][k].payload.users
           /\ alice \notin received[RunB][k].payload.users
           /\ \A j \in ReceivedOf(RunB, "chatMessage") : j < k
     /\ \A k \in ReceivedOf(RunB, "roomUpdate") :
           (received[RunB][k].payload.id = RunRoom
              /\ \E j \in ReceivedOf(RunB, "chatMessage") : j < k)
             => RunA \notin received[RunB][k].payload.users

C23_Witness ==
  /\ RunOver
  /\ Len(messages[RunB]) = 1
  /\ Len(notifications[RunB]) = 1
  /\ received[RunB][Len(received[RunB])].ev = "roomUpdate"
  /\ received[RunB][Len(received[RunB])].payload.users = {RunB}

\* a notification but for its read flag
Unread(notification) == [notification EXCEPT !.read = FALSE]

\* the notifications socket c has in its list or still on its wire
Arrived(c) ==
  notifications[c]
    \o SelectSeq(wire[c], LAMBDA e : e.ev = "notification")

====
